---- MODULE Spec2Model ----
(***************************************************************************)
(* Model of the authentication / token-refresh service (AuthService) and   *)
(* of the one-shot re-authentication retry of GraphqlClient.query in       *)
(* er_ccapi_python/client.                                                  *)
(*                                                                         *)
(* Python values: a str is a TLA+ string, None (in a slot that otherwise   *)
(* holds a str) is the reserved string None, a dict is a record and the    *)
(* empty mapping is <<>>.                                                  *)
(***************************************************************************)
EXTENDS Naturals, Sequences, FiniteSets, TLC

\* ---------------------------------------------------------------- bounds
\* Deepest nesting of GraphqlClient.query frames a thread may reach.
MaxDepth == 3

\* ---------------------------------------------------------------- values
Threads == {"t1", "t2"}
MainThread == "t1"

None == "<None>"
Tokens == {"", "a", "b"}
NoScheduler == 0
NoClient == <<>>
NoHeader == <<>>
EmptyDict == <<>>
Responses == {[data |-> 1], [data |-> 2]}

ProtocolError == "TransportProtocolError"
OtherErrors == {"GraphQLError", "TransportQueryError", "TransportClosed",
                "TransportServerError", "Exception"}

\* What one client.execute can end in: a response or one of the exceptions
\* that GraphqlClient.query has an except clause for.
SendOutcomes == [kind : {"response"}, val : Responses]
                \cup [kind : {"error"}, val : {ProtocolError} \cup OtherErrors]

\* What one requests.post of _handle_access_token can end in.
FailureKinds == {"status", "timeout", "request_error", "bad_json", "no_access_token"}
FetchOutcomes == [kind : {"ok"}, token : Tokens]
                 \cup [kind : FailureKinds, token : {None}]
\* What lastFetch keeps of an outcome: whether it is a success, and its token.
NoFetch == [kind |-> "none", token |-> None]
Completed(o) == [kind |-> IF o.kind = "ok" THEN "ok" ELSE "failed", token |-> o.token]

\* Configuration. A key that is missing from the dict has the value Absent; the
\* refresh interval, an int, is <<n>> when the key is there and <<>> when not.
\* A key file is named by what reading it gives.
Absent == "<absent>"
NoAuthService == "<None>"
Alive == "alive"
Disposing == "disposing"
Disposed == "disposed"
Constructed == "AuthService"
DefaultRefreshInterval == 300
Timeout == 5
Endpoints == {"", "https://login"}
Emails == {"", "user@site"}
InlineKeys == {Absent, "inline-key"}
KeyFiles == {Absent, None, "missing.txt", "empty.txt", "key.txt"}
Intervals == {<<>>, <<0 - 1>>, <<0>>, <<60>>}
Configs == [endpoint : Endpoints, user_email : Emails, user_api_key : InlineKeys,
            user_api_key_file : KeyFiles, refresh_interval : Intervals]
ValidConfig == [endpoint |-> "https://login", user_email |-> "user@site",
                user_api_key |-> Absent, user_api_key_file |-> "key.txt",
                refresh_interval |-> <<60>>]

\* The operations of Robot that control the robot.
RobotOps == {"wake_up_robot", "become_principal_driver", "start_mission_execution",
             "pause_current_mission"}

\* The two request methods of GraphqlClient.
QueryOps == {"query", "query_async"}

Return(v) == [kind |-> "return", val |-> v]
Raise(e) == [kind |-> "raise", val |-> e]
NoResult == [kind |-> "none", val |-> None]

\* ---------------------------------------------------------------- state
VARIABLES
    access_token,     \* AuthService.__access_token
    auth_scheduler,   \* AuthService.__auth_scheduler (NoScheduler or its id)
    schedulers,       \* the BackgroundSchedulers started, each with one interval job
    ticking,          \* the schedulers whose job is running _handle_access_token
    reauthenticated,  \* GraphqlClient._reauthenticated
    client,           \* GraphqlClient.client (its transport's headers)
    pc,               \* each thread's position
    op,               \* the public operation each thread is in
    depth,            \* number of nested GraphqlClient.query frames of the thread
    pending,          \* the value being returned / exception being raised
    header,           \* local `header` of _initialize_client, while it runs
    sendLog,          \* outcomes of the client.execute calls of the current request
    rebuilds,         \* _initialize_client calls of the current request
    fetches,          \* requests.post calls issued by the current call
    fetched,          \* token returned by the requests.post of the get_bearer_token
                      \* call in progress or just completed
    lastFetch,        \* how the requests.post that completed last (any thread) ended
    fresh,            \* the AuthService was fresh when the thread's get_bearer_token
                      \* began: no token, no scheduler, no fetch completed so far
    config,           \* the config dict handed to GraphqlClient / AuthService
    auth_service,     \* GraphqlClient._auth_service: None or the AuthService built
    shutdown,         \* the BackgroundSchedulers that were shut down
    disposed,         \* AuthService.__del__ has run
    safemode,         \* Robot.safemode
    robotOp,          \* the Robot control operation each thread is in
    has_reauthenticated  \* the client object has the attribute _reauthenticated:
                      \* GraphqlClient.__init__ sets it, GraphqlClientWss.__init__
                      \* does not (reauthenticated is then not read)

vars == <<access_token, auth_scheduler, schedulers, ticking, reauthenticated, client,
          pc, op, depth, pending, header, sendLog, rebuilds, fetches, fetched, lastFetch,
          fresh, config, auth_service, shutdown, disposed, safemode, robotOp,
          has_reauthenticated>>

ctorVars == <<config, auth_service, has_reauthenticated>>
disposeVars == <<shutdown, disposed>>
robotVars == <<safemode, robotOp>>
otherVars == <<ctorVars, disposeVars, robotVars>>

authVars == <<access_token, auth_scheduler, schedulers, ticking, lastFetch>>
clientVars == <<reauthenticated, client>>

\* ------------------------------------------------------- pure functions
\* Python truthiness of an optional str.
Truthy(x) == x # None /\ x # ""

\* str(x) as an f-string renders it.
Str(x) == IF x = None THEN "None" ELSE x

FormatBearer_NoSpace(tok) == "Bearer" \o Str(tok)
\* f"Bearer {self.__access_token}"
FormatBearer(tok) == "Bearer " \o Str(tok)

\* get_auth_header, given what get_bearer_token returned.
get_auth_header(bearer) ==
    IF ~Truthy(bearer) THEN NoHeader ELSE [authorization |-> bearer]

NeedsAuthenticate_TokenOnly(tok, sched) == ~Truthy(tok)
NeedsAuthenticate_OnlyWithScheduler(tok, sched) == ~Truthy(tok) /\ sched # NoScheduler
\* get_bearer_token: `not self.__access_token or self.__auth_scheduler is None`
NeedsAuthenticate(tok, sched) == ~Truthy(tok) \/ sched = NoScheduler

\* _handle_access_token: the token cached after a requests.post that ended in
\* outcome o, and whether the call raises. A 2xx body without "access_token"
\* raises KeyError before the assignment; response.json() on a body that is not
\* JSON raises requests.exceptions.JSONDecodeError, a RequestException.
handle_access_token(cur, o) ==
    CASE o.kind = "ok" -> [token |-> o.token, raises |-> FALSE]
      [] o.kind = "no_access_token" -> [token |-> cur, raises |-> TRUE]
      [] OTHER -> [token |-> None, raises |-> FALSE]

\* `await v` on what GraphqlClient.query returned: query is a plain function
\* and v a dict, which is not awaitable.
Await(v) == Raise("TypeError")

\* What the frame that called self.query(...) from its except clause is left
\* with when the call returned v: query drops v and will return {};
\* query_async awaits v.
AfterNestedQuery(async, v) == IF async THEN Await(v) ELSE Return(EmptyDict)

Retryable_ServerError(e) == e \in {ProtocolError, "TransportServerError"}
\* GraphqlClient.query: the except clause that retries.
Retryable(e) == e = ProtocolError

\* open(f).read().strip() for the key files of KeyFiles; "missing.txt" does not
\* exist.
ReadKeyFile(f) == IF f = "key.txt" THEN "file-key" ELSE ""

RefreshInterval(cfg) ==
    IF cfg.refresh_interval = <<>> THEN DefaultRefreshInterval
    ELSE cfg.refresh_interval[1]

\* What AuthService.__init__ leaves in user_api_key at line 41: line 37 drops the
\* inline key whenever no key file is given, lines 39-40 replace it by the
\* content of the key file otherwise.
LoadedApiKey(cfg) ==
    IF cfg.user_api_key_file = None THEN None ELSE ReadKeyFile(cfg.user_api_key_file)

\* AuthService.__init__, line 57: `if not refresh_interval`.
IntervalRejected(n) == n = 0

\* AuthService.__init__: the exception it raises, or None when the object is
\* built.
AuthService_init(cfg) ==
    CASE cfg = EmptyDict -> "ValueError"
      [] cfg.user_api_key_file = Absent -> "KeyError"
      [] cfg.user_api_key_file = "missing.txt" -> "FileNotFoundError"
      [] ~Truthy(cfg.endpoint) -> "ValueError"
      [] ~Truthy(cfg.user_email) -> "ValueError"
      [] ~Truthy(LoadedApiKey(cfg)) -> "ValueError"
      [] IntervalRejected(RefreshInterval(cfg)) -> "ValueError"
      [] OTHER -> None

\* ----------------------------------------------------------------- Init
\* The state in which GraphqlClient.__init__ is at line 34 (svc is
\* NoAuthService) or at line 35 (svc is Constructed), with config cfg.
InitWith(cfg, svc, sm, flag) ==
    /\ access_token = None
    /\ auth_scheduler = NoScheduler
    /\ schedulers = {}
    /\ ticking = {}
    /\ reauthenticated = FALSE
    /\ client = NoClient
    /\ pc = [t \in Threads |-> "idle"]
    /\ op = [t \in Threads |-> "none"]
    /\ depth = [t \in Threads |-> 0]
    /\ pending = [t \in Threads |-> NoResult]
    /\ header = [t \in Threads |-> NoHeader]
    /\ sendLog = [t \in Threads |-> <<>>]
    /\ rebuilds = [t \in Threads |-> 0]
    /\ fetches = [t \in Threads |-> 0]
    /\ fetched = [t \in Threads |-> None]
    /\ lastFetch = NoFetch
    /\ fresh = [t \in Threads |-> FALSE]
    /\ config = cfg
    /\ auth_service = svc
    /\ shutdown = {}
    /\ disposed = Alive
    /\ safemode = sm
    /\ has_reauthenticated = flag
    /\ robotOp = [t \in Threads |-> "none"]

\* AuthService.__init__ has run and GraphqlClient.__init__ is before its call of
\* _initialize_client.
Init == InitWith(ValidConfig, Constructed, TRUE, TRUE)

\* The same for a GraphqlClientWss, whose __init__ (lines 151-156) does not set
\* _reauthenticated.
InitWss == InitWith(ValidConfig, Constructed, TRUE, FALSE)

\* The same, for a Robot made with safemode on or off.
InitRobot == \E sm \in BOOLEAN : InitWith(ValidConfig, Constructed, sm, TRUE)

\* GraphqlClient.__init__ is before its call of _init_auth_service, with any
\* config.
InitCtor == \E cfg \in Configs \cup {EmptyDict} : InitWith(cfg, NoAuthService, TRUE, TRUE)

\* ------------------------------------------------ starting an operation
\* GraphqlClient.__init__, line 34: _init_auth_service builds the AuthService, or
\* what AuthService.__init__ raises leaves GraphqlClient.__init__; line 35 then
\* calls _initialize_client.
init_auth_service(t) ==
    /\ auth_service = NoAuthService
    /\ \A u \in Threads : pc[u] = "idle"
    /\ op' = [op EXCEPT ![t] = "init"]
    /\ IF AuthService_init(config) = None
       THEN /\ auth_service' = Constructed
            /\ pc' = [pc EXCEPT ![t] = "gbt_check"]
            /\ UNCHANGED pending
       ELSE /\ pending' = [pending EXCEPT ![t] = Raise(AuthService_init(config))]
            /\ pc' = [pc EXCEPT ![t] = "done"]
            /\ UNCHANGED auth_service
    /\ UNCHANGED <<config, has_reauthenticated, disposeVars, robotVars, authVars,
                   clientVars, depth, header,
                   sendLog, rebuilds, fetches, fetched, fresh>>

\* A caller awaits GraphqlClient.query_async.
query_async_call(t) ==
    /\ pc[t] = "idle"
    /\ disposed = Alive
    /\ client # NoClient
    /\ pc' = [pc EXCEPT ![t] = "execute"]
    /\ op' = [op EXCEPT ![t] = "query_async"]
    /\ depth' = [depth EXCEPT ![t] = 1]
    /\ UNCHANGED <<otherVars, authVars, clientVars, pending, header, sendLog, rebuilds,
                   fetches, fetched, fresh>>

\* GraphqlClient.__init__ reaches self._initialize_client().
init_call(t) ==
    /\ client = NoClient
    /\ auth_service = Constructed
    /\ disposed = Alive
    /\ \A u \in Threads : pc[u] = "idle"
    /\ pc' = [pc EXCEPT ![t] = "gbt_check"]
    /\ op' = [op EXCEPT ![t] = "init"]
    /\ UNCHANGED <<otherVars, authVars, clientVars, depth, pending, header, sendLog, rebuilds,
                   fetches, fetched, fresh>>

\* A caller enters GraphqlClient.query.
query_call(t) ==
    /\ pc[t] = "idle"
    /\ disposed = Alive
    /\ client # NoClient
    /\ pc' = [pc EXCEPT ![t] = "execute"]
    /\ op' = [op EXCEPT ![t] = "query"]
    /\ depth' = [depth EXCEPT ![t] = 1]
    /\ UNCHANGED <<otherVars, authVars, clientVars, pending, header, sendLog, rebuilds,
                   fetches, fetched, fresh>>

\* A caller enters AuthService.get_bearer_token.
get_bearer_token_call(t) ==
    /\ pc[t] = "idle"
    /\ disposed = Alive
    /\ pc' = [pc EXCEPT ![t] = "gbt_check"]
    /\ op' = [op EXCEPT ![t] = "get_bearer_token"]
    /\ UNCHANGED <<otherVars, authVars, clientVars, depth, pending, header, sendLog, rebuilds,
                   fetches, fetched, fresh>>

\* A caller enters AuthService.get_auth_header.
get_auth_header_call(t) ==
    /\ pc[t] = "idle"
    /\ disposed = Alive
    /\ pc' = [pc EXCEPT ![t] = "gbt_check"]
    /\ op' = [op EXCEPT ![t] = "get_auth_header"]
    /\ UNCHANGED <<otherVars, authVars, clientVars, depth, pending, header, sendLog, rebuilds,
                   fetches, fetched, fresh>>

\* The caller has its result; the thread is free for the next call.
call_end(t) ==
    /\ pc[t] = "done"
    /\ pc' = [pc EXCEPT ![t] = "idle"]
    /\ op' = [op EXCEPT ![t] = "none"]
    /\ depth' = [depth EXCEPT ![t] = 0]
    /\ pending' = [pending EXCEPT ![t] = NoResult]
    /\ header' = [header EXCEPT ![t] = NoHeader]
    /\ sendLog' = [sendLog EXCEPT ![t] = <<>>]
    /\ rebuilds' = [rebuilds EXCEPT ![t] = 0]
    /\ fetches' = [fetches EXCEPT ![t] = 0]
    /\ fetched' = [fetched EXCEPT ![t] = None]
    /\ fresh' = [fresh EXCEPT ![t] = FALSE]
    /\ robotOp' = [robotOp EXCEPT ![t] = "none"]
    /\ UNCHANGED <<ctorVars, disposeVars, safemode, authVars, clientVars>>

\* ---------------------------------------------------------- AuthService
\* get_bearer_token, line 148: authenticate or go on to the return statement.
get_bearer_token_check(t) ==
    /\ pc[t] = "gbt_check"
    /\ IF NeedsAuthenticate(access_token, auth_scheduler)
       THEN /\ pc' = [pc EXCEPT ![t] = "fetching"]
            /\ fetches' = [fetches EXCEPT ![t] = @ + 1]
       ELSE /\ pc' = [pc EXCEPT ![t] = "gbt_return"]
            /\ UNCHANGED fetches
    /\ fresh' = [fresh EXCEPT ![t] = access_token = None /\ auth_scheduler = NoScheduler
                                      /\ lastFetch = NoFetch]
    /\ UNCHANGED <<otherVars, authVars, clientVars, op, depth, pending, header, sendLog,
                   rebuilds, fetched>>

\* An exception leaves get_bearer_token: to the caller of get_bearer_token /
\* get_auth_header / GraphqlClient.__init__, or, inside query's except clause,
\* through query's finally.
RaisedInAuth(t, e) ==
    /\ pending' = [pending EXCEPT ![t] = Raise(e)]
    /\ pc' = [pc EXCEPT ![t] = IF op[t] \in QueryOps THEN "finally" ELSE "done"]

\* _authenticate, line 104: the requests.post of _handle_access_token completes.
authenticate_fetch(t, outcomes) ==
    /\ pc[t] = "fetching"
    /\ \E o \in outcomes :
         LET r == handle_access_token(access_token, o) IN
         /\ access_token' = r.token
         /\ lastFetch' = Completed(o)
         /\ fetched' = [fetched EXCEPT ![t] = o.token]
         /\ IF r.raises
            THEN RaisedInAuth(t, "KeyError")
            ELSE /\ pc' = [pc EXCEPT ![t] = "auth_sched"]
                 /\ UNCHANGED pending
    /\ UNCHANGED <<otherVars, auth_scheduler, schedulers, ticking, clientVars, op, depth,
                   header, sendLog, rebuilds, fetches, fresh>>

authenticate_scheduler_check_Always(t) ==
    /\ pc[t] = "auth_sched"
    /\ pc' = [pc EXCEPT ![t] = "auth_create"]
    /\ UNCHANGED <<otherVars, authVars, clientVars, op, depth, pending, header, sendLog,
                   rebuilds, fetches, fetched, fresh>>
\* _authenticate, line 107: `if self.__auth_scheduler is None`.
authenticate_scheduler_check(t) ==
    /\ pc[t] = "auth_sched"
    /\ pc' = [pc EXCEPT ![t] = IF auth_scheduler = NoScheduler
                               THEN "auth_create" ELSE "gbt_return"]
    /\ UNCHANGED <<otherVars, authVars, clientVars, op, depth, pending, header, sendLog,
                   rebuilds, fetches, fetched, fresh>>

\* _authenticate, lines 108-116: a new BackgroundScheduler is assigned, started
\* and given the interval job.
authenticate_scheduler_create(t) ==
    /\ pc[t] = "auth_create"
    /\ LET id == Cardinality(schedulers) + 1 IN
         /\ auth_scheduler' = id
         /\ schedulers' = schedulers \cup {id}
    /\ pc' = [pc EXCEPT ![t] = "gbt_return"]
    /\ UNCHANGED <<otherVars, access_token, ticking, lastFetch, clientVars, op, depth, pending,
                   header, sendLog, rebuilds, fetches, fetched, fresh>>

\* get_bearer_token has computed `bearer`: it returns to its caller, to
\* get_auth_header, or through get_auth_header to _initialize_client.
BearerReturned(t, bearer) ==
    CASE op[t] = "get_bearer_token" ->
           /\ pending' = [pending EXCEPT ![t] = Return(bearer)]
           /\ pc' = [pc EXCEPT ![t] = "done"]
           /\ UNCHANGED header
      [] op[t] = "get_auth_header" ->
           /\ pending' = [pending EXCEPT ![t] = Return(get_auth_header(bearer))]
           /\ pc' = [pc EXCEPT ![t] = "done"]
           /\ UNCHANGED header
      [] OTHER ->
           /\ header' = [header EXCEPT ![t] = get_auth_header(bearer)]
           /\ pc' = [pc EXCEPT ![t] = "ic_assign"]
           /\ UNCHANGED pending

\* get_bearer_token, line 151: `if not self.__access_token: return None`.
get_bearer_token_return(t) ==
    /\ pc[t] = "gbt_return"
    /\ IF ~Truthy(access_token)
       THEN BearerReturned(t, None)
       ELSE /\ pc' = [pc EXCEPT ![t] = "gbt_format"]
            /\ UNCHANGED <<pending, header>>
    /\ UNCHANGED <<otherVars, authVars, clientVars, op, depth, sendLog, rebuilds, fetches,
                   fetched, fresh>>

\* get_bearer_token, line 154: the token is read again for the f-string.
get_bearer_token_format(t) ==
    /\ pc[t] = "gbt_format"
    /\ BearerReturned(t, FormatBearer(access_token))
    /\ UNCHANGED <<otherVars, authVars, clientVars, op, depth, sendLog, rebuilds, fetches,
                   fetched, fresh>>

\* The interval job of scheduler s fires; max_instances=1 skips the run while
\* the previous one is still executing.
tick_start(s) ==
    /\ s \in schedulers \ (ticking \cup shutdown)
    /\ ticking' = ticking \cup {s}
    /\ UNCHANGED <<otherVars, access_token, auth_scheduler, schedulers, lastFetch, clientVars,
                   pc, op, depth, pending, header, sendLog, rebuilds, fetches, fetched,
                   fresh>>

tick_complete_StopsOnFailure(s, outcomes) ==
    /\ s \in ticking
    /\ \E o \in outcomes :
         /\ access_token' = handle_access_token(access_token, o).token
         /\ lastFetch' = Completed(o)
         /\ shutdown' = IF o.kind = "ok" THEN shutdown ELSE shutdown \cup {s}
    /\ ticking' = ticking \ {s}
    /\ UNCHANGED <<ctorVars, disposed, robotVars, auth_scheduler, schedulers, clientVars,
                   pc, op, depth, pending, header, sendLog, rebuilds, fetches, fetched,
                   fresh>>
tick_complete_RebuildsClient(s, outcomes) ==
    /\ s \in ticking
    /\ \E o \in outcomes :
         /\ access_token' = handle_access_token(access_token, o).token
         /\ lastFetch' = Completed(o)
         /\ client' = [headers |-> get_auth_header(
                          IF Truthy(access_token') THEN FormatBearer(access_token')
                          ELSE None)]
    /\ ticking' = ticking \ {s}
    /\ UNCHANGED <<otherVars, auth_scheduler, schedulers, reauthenticated,
                   pc, op, depth, pending, header, sendLog, rebuilds, fetches, fetched,
                   fresh>>
\* The job's _handle_access_token completes; the scheduler logs what it raises.
tick_complete(s, outcomes) ==
    /\ s \in ticking
    /\ \E o \in outcomes :
         /\ access_token' = handle_access_token(access_token, o).token
         /\ lastFetch' = Completed(o)
    /\ ticking' = ticking \ {s}
    /\ UNCHANGED <<otherVars, auth_scheduler, schedulers, clientVars,
                   pc, op, depth, pending, header, sendLog, rebuilds, fetches, fetched,
                   fresh>>

\* ----------------------------------------------- AuthService.__del__
\* BackgroundScheduler.shutdown() raises SchedulerNotRunningError on a scheduler
\* that is not running.
ShutdownRaises(sched, down) == sched \in down

\* __del__, lines 97-98: the bare `except: pass` swallows what shutdown raises.
ExceptPasses(raised) == TRUE

\* __del__ is entered, by the collector or by an explicit call, when no call on
\* the object is in progress.
del_call(t) ==
    /\ \A u \in Threads : pc[u] = "idle"
    /\ auth_service = Constructed
    /\ pc' = [pc EXCEPT ![t] = "del_check"]
    /\ op' = [op EXCEPT ![t] = "del"]
    /\ disposed' = IF disposed = Alive THEN Disposing ELSE disposed
    /\ UNCHANGED <<ctorVars, shutdown, robotVars, authVars, clientVars, depth, pending,
                   header, sendLog, rebuilds, fetches, fetched, fresh>>

\* __del__, lines 93-98: nothing to do without a scheduler; otherwise shutdown()
\* stops the interval job, or raises into the except clause.
del_shutdown(t) ==
    /\ pc[t] = "del_check"
    /\ IF auth_scheduler = NoScheduler
       THEN /\ pc' = [pc EXCEPT ![t] = "del_return"]
            /\ UNCHANGED <<shutdown, pending>>
       ELSE IF ShutdownRaises(auth_scheduler, shutdown)
       THEN /\ pending' = [pending EXCEPT ![t] =
                              IF ExceptPasses(TRUE) THEN NoResult
                              ELSE Raise("SchedulerNotRunningError")]
            /\ pc' = [pc EXCEPT ![t] = "del_return"]
            /\ UNCHANGED shutdown
       ELSE /\ shutdown' = shutdown \cup {auth_scheduler}
            /\ pc' = [pc EXCEPT ![t] = "del_wait"]
            /\ UNCHANGED pending
    /\ UNCHANGED <<ctorVars, disposed, robotVars, authVars, clientVars, op, depth,
                   header, sendLog, rebuilds, fetches, fetched, fresh>>

\* shutdown(wait=True) returns once the job that was running has ended.
del_wait(t) ==
    /\ pc[t] = "del_wait"
    /\ auth_scheduler \notin ticking
    /\ pc' = [pc EXCEPT ![t] = "del_return"]
    /\ UNCHANGED <<otherVars, authVars, clientVars, op, depth, pending,
                   header, sendLog, rebuilds, fetches, fetched, fresh>>

\* __del__ ends.
del_return(t) ==
    /\ pc[t] = "del_return"
    /\ pending' = [pending EXCEPT ![t] = IF @.kind = "raise" THEN @ ELSE Return(None)]
    /\ pc' = [pc EXCEPT ![t] = "done"]
    /\ disposed' = Disposed
    /\ UNCHANGED <<ctorVars, shutdown, robotVars, authVars, clientVars, op, depth,
                   header, sendLog, rebuilds, fetches, fetched, fresh>>

\* -------------------------------------------------------- GraphqlClient
\* _initialize_client, lines 60-62: the transport is built with `header` and
\* self.client is replaced.
initialize_client_assign(t) ==
    /\ pc[t] = "ic_assign"
    /\ client' = [headers |-> header[t]]
    /\ header' = [header EXCEPT ![t] = NoHeader]
    /\ IF op[t] = "init"
       THEN /\ pc' = [pc EXCEPT ![t] = "done"]
            /\ pending' = [pending EXCEPT ![t] = Return(None)]
       ELSE /\ pc' = [pc EXCEPT ![t] = "set_flag"]
            /\ UNCHANGED pending
    /\ UNCHANGED <<otherVars, authVars, reauthenticated, op, depth, sendLog, rebuilds,
                   fetches, fetched, fresh>>

\* query, line 116 (query_async, line 75): self.client.execute ends in a response or an exception.
query_execute(t, outcomes) ==
    /\ pc[t] = "execute"
    /\ \E o \in outcomes :
         /\ sendLog' = [sendLog EXCEPT ![t] = Append(@, o)]
         /\ IF o.kind = "response"
            THEN /\ pending' = [pending EXCEPT ![t] = Return(o.val)]
                 /\ pc' = [pc EXCEPT ![t] = "finally"]
            ELSE IF Retryable(o.val)
            THEN /\ pc' = [pc EXCEPT ![t] = "except_protocol"]
                 /\ UNCHANGED pending
            ELSE /\ pending' = [pending EXCEPT ![t] = Raise(o.val)]
                 /\ pc' = [pc EXCEPT ![t] = "finally"]
    /\ UNCHANGED <<otherVars, authVars, clientVars, op, depth, header, rebuilds, fetches,
                   fetched, fresh>>

\* Reading self._reauthenticated raises AttributeError while no assignment has
\* made the attribute.
HasAttribute(has) == has

\* query, lines 122-128 (query_async, lines 81-87): `if self._reauthenticated: raise`, else
\* self._initialize_client() is called.
query_except_protocol(t) ==
    /\ pc[t] = "except_protocol"
    /\ IF ~HasAttribute(has_reauthenticated)
       THEN /\ pending' = [pending EXCEPT ![t] = Raise("AttributeError")]
            /\ pc' = [pc EXCEPT ![t] = "finally"]
            /\ UNCHANGED rebuilds
       ELSE IF reauthenticated
       THEN /\ pending' = [pending EXCEPT ![t] = Raise(ProtocolError)]
            /\ pc' = [pc EXCEPT ![t] = "finally"]
            /\ UNCHANGED rebuilds
       ELSE /\ rebuilds' = [rebuilds EXCEPT ![t] = @ + 1]
            /\ pc' = [pc EXCEPT ![t] = "gbt_check"]
            /\ UNCHANGED pending
    /\ UNCHANGED <<otherVars, authVars, clientVars, op, depth, header, sendLog, fetches,
                   fetched, fresh>>

\* query, lines 129-130 (query_async, lines 88-89): the flag is set and query is
\* called.
query_set_reauthenticated(t) ==
    /\ pc[t] = "set_flag"
    /\ depth[t] < MaxDepth
    /\ reauthenticated' = TRUE
    /\ depth' = [depth EXCEPT ![t] = @ + 1]
    /\ pc' = [pc EXCEPT ![t] = "execute"]
    /\ fetched' = [fetched EXCEPT ![t] = None]
    /\ UNCHANGED <<otherVars, authVars, client, op, pending, header, sendLog, rebuilds, fetches,
                   fresh>>

query_finally_Stays(t) ==
    /\ pc[t] = "finally"
    /\ reauthenticated' = FALSE
    /\ UNCHANGED <<otherVars, authVars, client, pc, op, depth, pending, header, sendLog,
                   rebuilds, fetches, fetched, fresh>>
query_finally_KeepFlag(t) ==
    /\ pc[t] = "finally"
    /\ IF depth[t] = 1
       THEN /\ pc' = [pc EXCEPT ![t] = "done"]
            /\ UNCHANGED <<depth, pending>>
       ELSE /\ depth' = [depth EXCEPT ![t] = @ - 1]
            /\ pending' = [pending EXCEPT ![t] =
                              IF @.kind = "return" THEN Return(EmptyDict) ELSE @]
            /\ UNCHANGED pc
    /\ UNCHANGED <<otherVars, authVars, clientVars, op, header, sendLog, rebuilds,
                   fetches, fetched, fresh>>
\* query, lines 144-146 (query_async, lines 103-105): the finally clause of the innermost frame runs and the
\* frame ends. The frame that called it is in its except clause, after
\* `self.query(...)`: it drops a returned value and, past its own finally,
\* returns {}; an exception goes on through its finally.
query_finally(t) ==
    /\ pc[t] = "finally"
    /\ reauthenticated' = FALSE
    /\ has_reauthenticated' = TRUE
    /\ IF depth[t] = 1
       THEN /\ pc' = [pc EXCEPT ![t] = IF robotOp[t] = "none" THEN "done"
                                      ELSE "robot_return"]
            /\ UNCHANGED <<depth, pending>>
       ELSE /\ depth' = [depth EXCEPT ![t] = @ - 1]
            /\ pending' = [pending EXCEPT ![t] =
                              IF @.kind = "return"
                              THEN AfterNestedQuery(op[t] = "query_async" /\ depth[t] = 2,
                                                    @.val)
                              ELSE @]
            /\ UNCHANGED pc
    /\ UNCHANGED <<config, auth_service, disposeVars, robotVars, authVars, client, op,
                   header, sendLog, rebuilds, fetches, fetched,
                   fresh>>

\* ---------------------------------------------------------------- Robot
SafemodeBlocks_Never(sm) == FALSE
\* `if self.safemode: raise Exception("Robot control is in safe mode")`
SafemodeBlocks(sm) == sm

\* What a control operation hands its caller once the client.query of its
\* query_helper function has ended in res; good tells whether the response
\* reports the state the operation hopes for (robot connected and awake,
\* mission paused). The helpers of wake_up_robot, start_mission_execution and
\* pause_current_mission wrap what query raises in RobotException;
\* become_principal_driver lets it through. Every helper indexes the response,
\* which fails on {}. Robot.wake_up_robot, on a robot that is not awake, calls
\* query_helper.wake_up_robot with three arguments for its two parameters.
RobotResult(name, res, good) ==
    IF res.kind = "raise"
    THEN IF name = "become_principal_driver" THEN res ELSE Raise("RobotException")
    ELSE IF res.val = EmptyDict THEN Raise("KeyError")
    ELSE CASE name = "wake_up_robot" ->
                IF good THEN Return(None) ELSE Raise("TypeError")
           [] name = "pause_current_mission" ->
                IF good THEN Return(None) ELSE Raise("RobotException")
           [] OTHER -> res

\* A caller enters one of the control operations of a Robot.
robot_control_call(t, name) ==
    /\ pc[t] = "idle"
    /\ client # NoClient
    /\ disposed = Alive
    /\ robotOp' = [robotOp EXCEPT ![t] = name]
    /\ op' = [op EXCEPT ![t] = "robot"]
    /\ pc' = [pc EXCEPT ![t] = "safemode_check"]
    /\ UNCHANGED <<ctorVars, disposeVars, safemode, authVars, clientVars, depth, pending,
                   header, sendLog, rebuilds, fetches, fetched, fresh>>

\* The safemode guard at the top of the operation: it raises, or the operation
\* goes on to the client.query of its query_helper function.
robot_safemode_check(t) ==
    /\ pc[t] = "safemode_check"
    /\ IF SafemodeBlocks(safemode)
       THEN /\ pending' = [pending EXCEPT ![t] = Raise("Exception")]
            /\ pc' = [pc EXCEPT ![t] = "done"]
            /\ UNCHANGED <<op, depth>>
       ELSE /\ op' = [op EXCEPT ![t] = "query"]
            /\ depth' = [depth EXCEPT ![t] = 1]
            /\ pc' = [pc EXCEPT ![t] = "execute"]
            /\ UNCHANGED pending
    /\ UNCHANGED <<otherVars, authVars, clientVars, header, sendLog, rebuilds, fetches,
                   fetched, fresh>>

\* client.query has ended; the helper and the operation hand on its result.
robot_return(t) ==
    /\ pc[t] = "robot_return"
    /\ \E good \in BOOLEAN :
         pending' = [pending EXCEPT ![t] = RobotResult(robotOp[t], @, good)]
    /\ op' = [op EXCEPT ![t] = "robot"]
    /\ pc' = [pc EXCEPT ![t] = "done"]
    /\ UNCHANGED <<otherVars, authVars, clientVars, depth, header, sendLog, rebuilds,
                   fetches, fetched, fresh>>

\* ------------------------------------------------------- specifications
AuthSteps(t, fetchOutcomes) ==
    \/ get_bearer_token_check(t)
    \/ authenticate_fetch(t, fetchOutcomes)
    \/ authenticate_scheduler_check(t)
    \/ authenticate_scheduler_create(t)
    \/ get_bearer_token_return(t)
    \/ get_bearer_token_format(t)
    \/ call_end(t)

ClientSteps(t, sendOutcomes) ==
    \/ init_call(t)
    \/ query_call(t)
    \/ initialize_client_assign(t)
    \/ query_execute(t, sendOutcomes)
    \/ query_except_protocol(t)
    \/ query_set_reauthenticated(t)
    \/ query_finally(t)

Ticks(fetchOutcomes) ==
    \/ \E s \in schedulers : tick_start(s)
    \/ \E s \in schedulers : tick_complete(s, fetchOutcomes)

\* One GraphqlClient used by one thread (no two calls overlap), with every
\* outcome of a send and of a token fetch.
NextSeq ==
    \/ \E t \in {MainThread} :
         ClientSteps(t, SendOutcomes) \/ AuthSteps(t, FetchOutcomes)
    \/ Ticks(FetchOutcomes)
SpecSeq == Init /\ [][NextSeq]_vars

\* One AuthService whose get_bearer_token / get_auth_header the threads call,
\* with every outcome of a token fetch.
NextAuth ==
    \/ \E t \in Threads :
         get_bearer_token_call(t) \/ get_auth_header_call(t)
         \/ AuthSteps(t, FetchOutcomes)
    \/ Ticks(FetchOutcomes)
SpecAuth == Init /\ [][NextAuth]_vars

\* One GraphqlClient used by the threads of Threads at the same time. A send
\* and a token fetch end in one outcome of each class the code tells apart.
ConcSendOutcomes ==
    {[kind |-> "response", val |-> [data |-> 1]],
     [kind |-> "error", val |-> ProtocolError],
     [kind |-> "error", val |-> "TransportServerError"]}
ConcFetchOutcomes ==
    {o \in FetchOutcomes : (o.kind = "ok" /\ o.token = "a")
                            \/ o.kind \in {"status", "no_access_token"}}
Next ==
    \/ \E t \in Threads :
         ClientSteps(t, ConcSendOutcomes) \/ AuthSteps(t, ConcFetchOutcomes)
    \/ Ticks(ConcFetchOutcomes)
Spec == Init /\ [][Next]_vars

\* One GraphqlClient used by the threads of Threads at the same time, every
\* thread going on: each send and each token fetch ends, and a thread that can
\* take its next step takes it. A send ends in a response or a ProtocolError, a
\* token fetch in a token or in the KeyError that ends the request.
FairSendOutcomes ==
    {[kind |-> "response", val |-> [data |-> 1]],
     [kind |-> "error", val |-> ProtocolError]}
FairFetchOutcomes ==
    {o \in FetchOutcomes : (o.kind = "ok" /\ o.token = "a") \/ o.kind = "no_access_token"}
ThreadStep(t) == ClientSteps(t, FairSendOutcomes) \/ AuthSteps(t, FairFetchOutcomes)
NextFair == \E t \in Threads : ThreadStep(t)
SpecFair == Init /\ [][NextFair]_vars /\ \A t \in Threads : WF_vars(ThreadStep(t))

\* One AuthService whose get_bearer_token / get_auth_header one thread calls,
\* call after call.
NextAuthSeq ==
    \/ \E t \in {MainThread} :
         get_bearer_token_call(t) \/ get_auth_header_call(t)
         \/ AuthSteps(t, FetchOutcomes)
    \/ Ticks(FetchOutcomes)
SpecAuthSeq == Init /\ [][NextAuthSeq]_vars

\* GraphqlClient.__init__ with any config, run by one thread.
NextCtor ==
    \/ \E t \in {MainThread} :
         init_auth_service(t) \/ initialize_client_assign(t)
         \/ AuthSteps(t, ConcFetchOutcomes)
    \/ Ticks(ConcFetchOutcomes)
SpecCtor == InitCtor /\ [][NextCtor]_vars

\* One GraphqlClient whose query and query_async one thread calls, call after
\* call.
NextAsync ==
    \/ \E t \in {MainThread} :
         query_async_call(t) \/ ClientSteps(t, SendOutcomes)
         \/ AuthSteps(t, FetchOutcomes)
    \/ Ticks(FetchOutcomes)
SpecAsync == Init /\ [][NextAsync]_vars

\* One GraphqlClientWss used by one thread, from its first request on; its
\* query and _initialize_client read as those of GraphqlClient.
SpecWss == InitWss /\ [][NextSeq]_vars

RobotSteps(t) ==
    \/ \E name \in RobotOps : robot_control_call(t, name)
    \/ robot_safemode_check(t)
    \/ robot_return(t)

\* One Robot, in safemode or not, on one GraphqlClient used by one thread.
NextRobot ==
    \/ \E t \in {MainThread} :
         ClientSteps(t, ConcSendOutcomes) \/ AuthSteps(t, ConcFetchOutcomes)
         \/ RobotSteps(t)
    \/ Ticks(ConcFetchOutcomes)
SpecRobot == InitRobot /\ [][NextRobot]_vars

\* The ids a BackgroundScheduler of the instance can have.
SchedulerIds == 1..Cardinality(Threads)

DelSteps(t) ==
    \/ del_call(t)
    \/ del_shutdown(t)
    \/ del_wait(t)
    \/ del_return(t)

\* One AuthService called by the threads of Threads and then disposed.
NextDispose ==
    \/ \E t \in Threads :
         get_bearer_token_call(t) \/ get_auth_header_call(t)
         \/ AuthSteps(t, ConcFetchOutcomes) \/ DelSteps(t)
    \/ Ticks(ConcFetchOutcomes)
SpecDispose == Init /\ [][NextDispose]_vars

\* The same, with the interval timer of each running scheduler firing again
\* and again and each fetch it starts completing.
SpecDisposeFair ==
    /\ SpecDispose
    /\ \A s \in SchedulerIds : WF_vars(tick_start(s))
    /\ \A s \in SchedulerIds : WF_vars(tick_complete(s, ConcFetchOutcomes))

\* ------------------------------------------------------------- claims
Sends(t) == Len(sendLog[t])
IsProtocolError(o) == o.kind = "error" /\ o.val = ProtocolError
IsOtherError(o) == o.kind = "error" /\ o.val \in OtherErrors
QueryEnded(t) == op[t] = "query" /\ pc[t] = "done"
Raised(t, e) == pending[t].kind = "raise" /\ pending[t].val = e
InAuthCall(t) == op[t] \in {"get_bearer_token", "get_auth_header"}

\* C1 (SpecSeq): a query, alone on the client, whose every send fails with a
\* ProtocolError never makes a third send or a second rebuild, and ends by
\* raising after exactly 2 sends and exactly 1 rebuild.
C1_TwoSendsOneRebuild ==
    \A t \in Threads :
      (op[t] = "query" /\ \A i \in 1..Sends(t) : IsProtocolError(sendLog[t][i])) =>
        /\ Sends(t) <= 2
        /\ rebuilds[t] <= 1
        /\ pc[t] = "done" =>
             (pending[t].kind = "raise" /\ Sends(t) = 2 /\ rebuilds[t] = 1)

\* C2 (SpecSeq): when the first send fails with a ProtocolError and the second
\* send succeeds, query returns the response of the second send.
C2_RetryResponseReturned ==
    \A t \in Threads :
      (QueryEnded(t) /\ Sends(t) = 2 /\ IsProtocolError(sendLog[t][1])
         /\ sendLog[t][2].kind = "response") =>
        pending[t] = Return(sendLog[t][2].val)

\* C3 (Spec): with requests running concurrently on one client, each request
\* makes at most 2 sends.
C3_AtMostTwoSends == \A t \in Threads : Sends(t) <= 2

\* C4 (Spec): with requests running concurrently on one client, a request whose
\* first send failed with a ProtocolError has had a rebuild of its own when it
\* ends, and does not end with that ProtocolError after a single send.
C4_EveryProtocolErrorRetried ==
    \A t \in Threads :
      (QueryEnded(t) /\ IsProtocolError(sendLog[t][1])) =>
        /\ rebuilds[t] >= 1
        /\ ~(Sends(t) = 1 /\ Raised(t, ProtocolError))

\* C5 (SpecSeq): when the rebuild that follows the first failed send is done and
\* the retry is about to be sent, a token fetch has been issued since the failed
\* send and the new transport carries the token that fetch returned.
C5_RebuildFetchesToken ==
    \A t \in Threads :
      (op[t] = "query" /\ pc[t] = "set_flag" /\ depth[t] = 1) =>
        /\ fetches[t] >= 1
        /\ Truthy(fetched[t]) => client.headers = [authorization |-> "Bearer " \o fetched[t]]

\* C6 (SpecSeq): a query whose first send fails with a query-level, server,
\* closed-transport or unknown error makes no other send, no rebuild and no
\* token fetch, and raises that error to its caller.
C6_OtherErrorNotRetried ==
    \A t \in Threads :
      (op[t] = "query" /\ Sends(t) >= 1 /\ IsOtherError(sendLog[t][1])) =>
        /\ Sends(t) = 1
        /\ rebuilds[t] = 0
        /\ fetches[t] = 0
        /\ depth[t] = 1
        /\ pc[t] \in {"finally", "done"}
        /\ Raised(t, sendLog[t][1].val)

\* A query has ended by raising the TransportClosed its only send failed with.
C6_Witness ==
    \E t \in Threads :
      /\ QueryEnded(t)
      /\ sendLog[t] = <<[kind |-> "error", val |-> "TransportClosed"]>>
      /\ Raised(t, "TransportClosed")

\* C7 (SpecAuth): get_bearer_token and get_auth_header end by returning (a
\* header or None), whatever the token fetch ended in; they never raise.
C7_NeverRaises ==
    \A t \in Threads : (InAuthCall(t) /\ pc[t] = "done") => pending[t].kind = "return"

\* C8 (SpecAuth): when the token fetch that completed last failed, in whatever
\* way, no token is cached.
C8_FailedFetchClearsToken == lastFetch.kind = "failed" => access_token = None

\* The step in which get_bearer_token, called directly, fixes what it returns.
BearerStep(t) ==
    /\ op[t] = "get_bearer_token"
    /\ pc[t] \in {"gbt_return", "gbt_format"}
    /\ pc'[t] = "done"

C10_FirstCallFetchesOnce ==
    \A t \in Threads :
      (InAuthCall(t) /\ fresh[t]) =>
        /\ fetches[t] <= 1
        /\ pc[t] = "done" => (fetches[t] = 1 /\ lastFetch # NoFetch)

\* A get_bearer_token call that began on a fresh AuthService has returned.
C10_Witness ==
    \E t \in Threads :
      /\ op[t] = "get_bearer_token" /\ pc[t] = "done" /\ fresh[t]
      /\ pending[t].kind = "return"
      /\ fetches[t] = 1

\* C11 (SpecAuthSeq): with get_bearer_token / get_auth_header called one after
\* the other, at most one scheduler (with its one interval job) is ever started,
\* it is the one the handle names, and a handle that is set is never reset nor
\* replaced.
C11_OneSchedulerNeverReplaced ==
    [][/\ Cardinality(schedulers') <= 1
       /\ auth_scheduler' # NoScheduler => schedulers' = {auth_scheduler'}
       /\ auth_scheduler # NoScheduler => auth_scheduler' = auth_scheduler]_vars

\* A second call has gone through _authenticate with the scheduler already set.
C11_Witness ==
    \E t \in Threads :
      /\ InAuthCall(t) /\ pc[t] = "done" /\ fetches[t] = 1 /\ ~fresh[t]
      /\ schedulers = {1} /\ auth_scheduler = 1

\* C12 (SpecAuth): with two threads calling get_bearer_token at the same time on
\* a fresh AuthService, at most one scheduler (one interval job) is created.
C12_OneSchedulerUnderRace == Cardinality(schedulers) <= 1

\* C13 (SpecAuth): at most one fetch of a background tick is in flight.
C13_OneTickInFlight == Cardinality(ticking) <= 1

\* C14 (SpecDispose): __del__ ends without raising, and once it has ended no
\* background tick starts a fetch.
C14_DisposeStopsTicks ==
    [][/\ \A t \in Threads :
            (op'[t] = "del" /\ pc'[t] = "done") => pending'[t].kind = "return"
       /\ disposed = Disposed => ticking' \subseteq ticking]_vars

\* The config has a readable key file and nothing else that stops __init__
\* before its validation.
Validated(cfg) == cfg # EmptyDict /\ cfg.user_api_key_file \in {"empty.txt", "key.txt"}

\* One of the settings is empty, or the refresh interval is zero or negative.
HasInvalidSetting(cfg) ==
    \/ cfg.endpoint = ""
    \/ cfg.user_email = ""
    \/ ReadKeyFile(cfg.user_api_key_file) = ""
    \/ cfg.refresh_interval # <<>> /\ cfg.refresh_interval[1] <= 0

\* C15 (SpecCtor): construction with an empty endpoint, an empty credential or a
\* zero or negative refresh interval ends in a configuration error (ValueError),
\* with no token fetch and no scheduler started.
C15_InvalidConfigRejected ==
    \A t \in Threads :
      (op[t] = "init" /\ Validated(config) /\ HasInvalidSetting(config)) =>
        /\ pc[t] = "done" /\ Raised(t, "ValueError")
        /\ fetches[t] = 0 /\ lastFetch = NoFetch /\ schedulers = {}

\* The config is valid but for how it supplies the API key: inline, with no key
\* file (key missing or None), or in a key file.
SuppliesInlineKey(cfg) ==
    cfg.user_api_key # Absent /\ cfg.user_api_key_file \in {Absent, None}
SuppliesKeyFile(cfg) == cfg.user_api_key_file = "key.txt"
OtherwiseValid(cfg) ==
    /\ cfg # EmptyDict
    /\ cfg.endpoint # "" /\ cfg.user_email # ""
    /\ cfg.refresh_interval \in {<<>>, <<60>>}

\* C17 (SpecCtor): with otherwise valid settings, construction does not fail when
\* the API key is given inline (no key file) or in a key file.
C17_EitherKeyInputAccepted ==
    \A t \in Threads :
      (op[t] = "init" /\ OtherwiseValid(config)
         /\ (SuppliesInlineKey(config) \/ SuppliesKeyFile(config))) =>
        pending[t].kind # "raise"

\* C16 (SpecRobot): a control operation never sends its request on a client
\* whose transport carries no authorization header: a token fetch that failed
\* reaches the caller as a failure of its own.
C16_NoSendWithoutAuthorization ==
    [][\A t \in Threads :
         (robotOp[t] # "none" /\ pc[t] = "execute" /\ sendLog'[t] # sendLog[t]) =>
           client.headers # NoHeader]_vars

\* C18 (SpecRobot): on a Robot in safemode every control operation raises
\* without a send, a rebuild or a token fetch, and no step changes safemode.
C18_SafemodeBlocksControl ==
    [][/\ safemode' = safemode
       /\ \A t \in Threads :
            (safemode /\ robotOp'[t] # "none") =>
              /\ sendLog'[t] = <<>> /\ rebuilds'[t] = 0 /\ fetches'[t] = 0
              /\ pc'[t] \in {"safemode_check", "done"}
              /\ pc'[t] = "done" => Raised(t, "Exception")']_vars

\* start_mission_execution has raised on a Robot in safemode.
C18_Witness ==
    \E t \in Threads :
      /\ safemode /\ robotOp[t] = "start_mission_execution"
      /\ pc[t] = "done" /\ Raised(t, "Exception") /\ sendLog[t] = <<>>

\* C19 (Spec): when a query has returned or raised and no other call is in
\* progress on the client, _reauthenticated is False.
C19_FlagResetAfterQuery ==
    \A t \in Threads :
      (QueryEnded(t) /\ \A u \in Threads \ {t} : pc[u] \in {"idle", "done"}) =>
        reauthenticated = FALSE

\* A query that set the flag and retried has ended, nothing else is running,
\* and the flag is False again.
C19_Witness ==
    \E t \in Threads :
      /\ QueryEnded(t) /\ Sends(t) = 2 /\ rebuilds[t] = 1
      /\ \A u \in Threads \ {t} : pc[u] = "idle"
      /\ reauthenticated = FALSE

\* C20 (SpecAsync): when the first send of query_async fails with a
\* ProtocolError and the retried send succeeds, query_async returns the
\* response of the retried send.
C20_AsyncRetryResponseReturned ==
    \A t \in Threads :
      (op[t] = "query_async" /\ pc[t] = "done" /\ Sends(t) = 2
         /\ IsProtocolError(sendLog[t][1]) /\ sendLog[t][2].kind = "response") =>
        pending[t] = Return(sendLog[t][2].val)

\* The thread is in the _initialize_client that query called from its except
\* clause: from the call to the assignment of self.client.
Rebuilding(t) ==
    /\ op[t] \in QueryOps
    /\ pc[t] \in {"gbt_check", "fetching", "auth_sched", "auth_create", "gbt_return",
                  "gbt_format", "ic_assign"}

\* C22 (Spec): at most one rebuild of the shared client is in progress.
C22_OneRebuildAtATime == Cardinality({t \in Threads : Rebuilding(t)}) <= 1

\* C23 (SpecAuth): the cached token is absent, or it is the token of the fetch
\* that completed last, which succeeded.
C23_TokenOfLastFetch ==
    access_token = None \/ (lastFetch.kind = "ok" /\ access_token = lastFetch.token)

\* C26 (SpecAuthSeq): when a get_bearer_token / get_auth_header call that went
\* through _authenticate has ended, the refresh scheduler is running.
C26_SchedulerRunningAfterAuthenticate ==
    \A t \in Threads :
      (InAuthCall(t) /\ pc[t] = "done" /\ fetches[t] >= 1) =>
        /\ auth_scheduler # NoScheduler
        /\ auth_scheduler \in schedulers \ shutdown

\* C27 (SpecAuth): the cached token is never the empty string.
C27_CachedTokenNonEmpty == access_token # ""

\* The bearer strings of the non-empty tokens.
ValidBearers == {"Bearer " \o tok : tok \in Tokens \ {""}}

\* C30 (SpecAuth): get_bearer_token returns None or "Bearer " followed by a
\* non-empty token; get_auth_header returns None or the one-entry mapping of
\* "authorization" to such a string.
C30_BearerWellFormed ==
    \A t \in Threads :
      (pc[t] = "done" /\ pending[t].kind = "return") =>
        /\ op[t] = "get_bearer_token" =>
             (pending[t].val = None \/ pending[t].val \in ValidBearers)
        /\ op[t] = "get_auth_header" =>
             (pending[t].val = NoHeader
                \/ pending[t].val \in [authorization : ValidBearers])

C29_HeaderChangesOnlyInInitializeClient ==
    [][client' # client =>
         \E t \in Threads : pc[t] = "ic_assign" /\ pc'[t] # "ic_assign"]_vars

\* The transport still carries "Bearer a" after a failed fetch cleared the
\* cached token.
C29_Witness ==
    /\ client # NoClient
    /\ client.headers = [authorization |-> "Bearer a"]
    /\ access_token = None /\ lastFetch.kind = "failed"

\* C25 (SpecDisposeFair): while the AuthService is not disposed no scheduler is
\* shut down or lost, whatever fetches fail; a scheduler that is idle after a
\* failed fetch ticks again; and a tick whose fetch succeeds caches its token.
C25_FailedFetchKeepsTicks ==
    /\ [][/\ disposed' = Alive => (shutdown' = {} /\ schedulers \subseteq schedulers')
          /\ \A s \in ticking \ ticking' :
               lastFetch'.kind = "ok" => access_token' = lastFetch'.token]_vars
    /\ \A s \in SchedulerIds :
         (s \in schedulers \ ticking /\ lastFetch.kind = "failed" /\ disposed = Alive)
           ~> (s \in ticking \/ disposed # Alive)

\* The fetch of a get_bearer_token call failed, and a tick that followed has
\* cached the token of its successful fetch.
C25_Witness ==
    \E t \in Threads :
      /\ InAuthCall(t) /\ pc[t] = "done" /\ fetches[t] = 1 /\ fetched[t] = None
      /\ schedulers # {} /\ ticking = {} /\ disposed = Alive
      /\ lastFetch = [kind |-> "ok", token |-> "a"] /\ access_token = "a"

\* The recursion of query has reached the depth the model follows it to.
AtMaxDepth(t) == pc[t] = "set_flag" /\ depth[t] = MaxDepth

C21_WssFirstQueryRetried ==
    \A t \in Threads :
      (QueryEnded(t) /\ IsProtocolError(sendLog[t][1])) =>
        /\ rebuilds[t] >= 1
        /\ ~Raised(t, "AttributeError")

====
